---- MODULE Spec2Model ----
(***************************************************************************)
(* The scene store of src/stores/sceneStore.tsx: a zustand store holding   *)
(* the five sequences of a Scene, and the actions that rebuild them with   *)
(* immer's produce and publish the result with zustand's set.              *)
(***************************************************************************)
EXTENDS Integers, Sequences, FiniteSets, TLC

\* ------------------------------------------------------------------ bounds

\* The create actions stop when a sequence holds MaxLen entities, or the scene
\* MaxEntities in all.
MaxLen == 2
MaxEntities == 3

\* ------------------------------------------------------------- value domains

Stores == {"A", "B"}
Fields == {"icons", "nodes", "connectors", "textBoxes", "rectangles"}
Ids == {"a", "b"}
Tiles == {0, 1}

\* the readers of a store: each subscribed with a selector, which picks one
\* sequence of the state, and an equality: none given (Object.is, the default)
\* or one that compares the selected sequences by value
Readers == [selector : Fields, equalityFn : {"Object.is", "byValue"}]

\* updates = {} of an update action: a record with no field
NoUpdates == [f \in {} |-> 0]

\* { ...a, ...b }: every field of b, and the fields of a that b lacks
Spread(a, b) ==
    [f \in (DOMAIN a) \cup (DOMAIN b) |-> IF f \in DOMAIN b THEN b[f] ELSE a[f]]

\* a ?? b on an optional field of an updates object
Coalesce(u, f, dflt) == IF f \in DOMAIN u THEN u[f] ELSE dflt

IdsOf(items) == {items[i].id : i \in DOMAIN items}

\* Array.prototype.splice(index, 1)
Splice(items, index) ==
    [i \in 1..(Len(items) - 1) |-> IF i < index THEN items[i] ELSE items[i + 1]]

\* ----------------------------------------------------------- collaborators

\* getItemById(items, id): the first item with that id and its index;
\* index 0 stands for the NotFound error it throws.
getItemById(items, id) ==
    LET hits == {i \in DOMAIN items : items[i].id = id}
    IN  IF hits = {}
        THEN [index |-> 0]
        ELSE LET index == CHOOSE i \in hits : \A j \in hits : i <= j
             IN  [index |-> index, item |-> items[index]]

\* anchor.ref.type === 'NODE' && anchor.ref.id === id
BoundTo(anchor, id) == anchor.ref.type = "NODE" /\ anchor.ref.id = id

\* connector.anchors.find(anchor => bound to id) is truthy
HasAnchorOn(connector, id) ==
    \E i \in DOMAIN connector.anchors : BoundTo(connector.anchors[i], id)

RECURSIVE getAllAnchors(_)
\* getAllAnchors(connectors): the anchors of all connectors, flattened
getAllAnchors(connectors) ==
    IF connectors = <<>>
    THEN <<>>
    ELSE Head(connectors).anchors \o getAllAnchors(Tail(connectors))

\* an anchor bound to a node that nodes does not hold
Dangling(anchors, nodes) ==
    \E i \in DOMAIN anchors :
        /\ anchors[i].ref.type = "NODE"
        /\ anchors[i].ref.id \notin IdsOf(nodes)

\* the tile an anchor resolves to: its own coordinate, or the position of the
\* node it is bound to (looked up by id)
AnchorTile(anchor, nodes) ==
    IF anchor.ref.type = "NODE"
    THEN getItemById(nodes, anchor.ref.id).item.position
    ELSE anchor.ref.coords

\* computePath(anchors, nodes, allAnchors): a pure function of the three; the
\* route runs through the tiles the anchors resolve to, in the context of the
\* global anchor set. Where Dangling(anchors, nodes) its lookup by id throws
\* NotFound, as every lookup by id does: its callers test that first.
getConnectorPath(anchors, nodes, allAnchors) ==
    [tiles |-> [i \in DOMAIN anchors |-> AnchorTile(anchors[i], nodes)],
     context |-> Len(allAnchors)]

\* measureTextWidth(text, style): pure; a text is a sequence of characters
getTextWidth(text, style) == Len(text) * style.fontSize

DEFAULT_FONT_FAMILY == "DEFAULT_FONT_FAMILY"
TEXTBOX_DEFAULTS == [fontSize |-> 1, fontWeight |-> "TEXTBOX_DEFAULTS.fontWeight"]

nodeInputToNode(node) == [id |-> node.id, position |-> node.position]

rectangleInputToRectangle(rectangle) == [id |-> rectangle.id, color |-> rectangle.color]

connectorInputToConnector(connector, nodes, allAnchors) ==
    [id |-> connector.id,
     anchors |-> connector.anchors,
     path |-> getConnectorPath(connector.anchors, nodes, allAnchors)]

textBoxInputToTextBox(textBox) ==
    LET fontSize == Coalesce(textBox, "fontSize", TEXTBOX_DEFAULTS.fontSize)
    IN  [id |-> textBox.id,
         text |-> textBox.text,
         fontSize |-> fontSize,
         size |-> [width |-> getTextWidth(textBox.text,
                                [fontSize |-> fontSize,
                                 fontFamily |-> DEFAULT_FONT_FAMILY,
                                 fontWeight |-> TEXTBOX_DEFAULTS.fontWeight]),
                   height |-> 1]]

Unique(items) ==
    \A i, j \in DOMAIN items : items[i].id = items[j].id => i = j

\* sceneInput.parse(raw) succeeds: ids unique within each sequence, and every
\* bound anchor resolvable within raw.nodes
Valid(raw) ==
    /\ \A f \in Fields : Unique(raw[f])
    /\ \A i \in DOMAIN raw.connectors : ~Dangling(raw.connectors[i].anchors, raw.nodes)

\* sceneInputToScene(raw): normalize into a full Scene
sceneInputToScene(raw) ==
    LET nodes == [i \in DOMAIN raw.nodes |-> nodeInputToNode(raw.nodes[i])]
    IN  [icons |-> raw.icons,
         nodes |-> nodes,
         connectors |-> [i \in DOMAIN raw.connectors |->
                           connectorInputToConnector(raw.connectors[i], nodes,
                                                     getAllAnchors(raw.connectors))],
         textBoxes |-> [i \in DOMAIN raw.textBoxes |->
                           textBoxInputToTextBox(raw.textBoxes[i])],
         rectangles |-> [i \in DOMAIN raw.rectangles |->
                           rectangleInputToRectangle(raw.rectangles[i])]]

\* ------------------------------------------------------------------ inputs

NodeAnchor(id) == [ref |-> [type |-> "NODE", id |-> id]]
TileAnchor(t) == [ref |-> [type |-> "TILE", coords |-> t]]

AnchorInputs ==
    {<<NodeAnchor("a"), NodeAnchor("b")>>,
     <<NodeAnchor("b"), TileAnchor(0)>>,
     <<TileAnchor(0), TileAnchor(1)>>}

NodeInputs == [id : Ids, position : Tiles]
ConnectorInputs == [id : Ids, anchors : AnchorInputs]
RectangleInputs == [id : Ids, color : {"red"}]

TextA == <<"a">>
TextBB == <<"b", "b">>
TextBoxInputs == [id : Ids, text : {TextA}]

StalePath == [tiles |-> <<0, 0>>, context |-> 0]
StaleSize == [width |-> 7, height |-> 3]

NodeUpdates == {NoUpdates, [id |-> "b"]} \cup [position : Tiles]
ConnectorUpdates ==
    {NoUpdates, [path |-> StalePath],
     [anchors |-> <<NodeAnchor("b"), TileAnchor(0)>>]}
RectangleUpdates == {NoUpdates, [color |-> "blue"]}
TextBoxUpdates ==
    {NoUpdates, [text |-> TextBB], [fontSize |-> 2],
     [text |-> TextBB, size |-> StaleSize]}

initialScene ==
    [icons |-> <<>>, nodes |-> <<>>, connectors |-> <<>>,
     textBoxes |-> <<>>, rectangles |-> <<>>]

Icon(id) == [id |-> id]

\* raw scenes handed to setScene: two the validator accepts, two it rejects
\* (duplicate ids; an anchor bound to a node the scene lacks)
RawScenes ==
    {[initialScene EXCEPT !.icons = <<Icon("a")>>,
                          !.nodes = <<[id |-> "a", position |-> 1]>>],
     [initialScene EXCEPT !.nodes = <<[id |-> "a", position |-> 0],
                                      [id |-> "b", position |-> 1]>>,
                          !.connectors = <<[id |-> "a",
                                            anchors |-> <<NodeAnchor("a"), NodeAnchor("b")>>]>>],
     [initialScene EXCEPT !.nodes = <<[id |-> "a", position |-> 0],
                                      [id |-> "a", position |-> 1]>>],
     [initialScene EXCEPT !.connectors = <<[id |-> "a",
                                            anchors |-> <<NodeAnchor("a"), TileAnchor(0)>>]>>]}

\* the sub-states handed to updateScene, which takes them as they are: an
\* empty one, one whose connector carries a path nothing computed, and one
\* whose connector is bound to a node the sub-state lacks
PartialScenes ==
    {[nodes |-> <<>>, connectors |-> <<>>, rectangles |-> <<>>],
     [nodes |-> <<[id |-> "b", position |-> 1]>>,
      connectors |-> <<[id |-> "a",
                        anchors |-> <<NodeAnchor("b"), TileAnchor(0)>>,
                        path |-> StalePath]>>,
      rectangles |-> <<[id |-> "a", color |-> "red"]>>],
     [nodes |-> <<[id |-> "a", position |-> 0]>>,
      connectors |-> <<[id |-> "a",
                        anchors |-> <<NodeAnchor("b"), TileAnchor(0)>>,
                        path |-> StalePath]>>,
      rectangles |-> <<>>]}

\* ------------------------------------------------------------------- state

VARIABLES
    scenes,     \* scenes[s]: the scene store s has published (what get() returns)
    pre,        \* the snapshot the caller holds: what get() returned to it
    call,       \* the action the caller has called since, with its arguments
                \* (Idle: none yet)
    outcome,    \* how that action ended: "ok", or the error it threw
    same,       \* the fields whose array in the store is still the very array
                \* object of the caller's snapshot
    published,  \* the snapshots that action handed to the subscribers, in order
    returned,   \* what that action returned to the caller: <<v>>, or <<>> for
                \* nothing (undefined, or the action threw)
    held,       \* held[s]: the state of store s when the caller called get()
    shared,     \* the fields whose array is one array object in the stores of
                \* all the providers mounted (each store is created over the
                \* one initialScene)
    notified    \* the readers of the called store that action made re-render

vars == <<scenes, call, outcome, pre, same, published, returned, held, shared, notified>>

Total(scene) ==
    Len(scene.icons) + Len(scene.nodes) + Len(scene.connectors)
        + Len(scene.textBoxes) + Len(scene.rectangles)

\* room for one more entity in sequence f of store s
Room(s, f) == Len(scenes[s][f]) < MaxLen /\ Total(scenes[s]) < MaxEntities

\* what call records of an action: the store, the action and its arguments
Call(s, op, id, arg) == [store |-> s, op |-> op, id |-> id, arg |-> arg]

\* the caller holds the state of store s and has called nothing on it yet
IdleOn(s) == Call(s, "idle", "", NoUpdates)

Idle == Call("A", "idle", "", NoUpdates)

\* createStore's initial state: { ...initialScene, actions: { ... } }
initialState == Spread(initialScene, [actions |-> "actions"])

\* The stores as their providers created them, the caller holding the state
\* of store A; sharing: the fields whose array the stores have in common.
Mounted(sharing) ==
    /\ scenes = [s \in Stores |-> initialState]
    /\ pre = initialState
    /\ call = Idle
    /\ outcome = "ok"
    /\ same = Fields
    /\ published = <<>>
    /\ returned = <<>>
    /\ held = [s \in Stores |-> initialState]
    /\ shared = sharing
    /\ notified = {}

\* One provider is mounted: store A is the only store there is, and shares
\* its arrays with no other.
Init == Mounted({})

\* Two providers are mounted: the stores A and B, each created by
\* initialState() over the one initialScene, whose five arrays they share.
InitStores == Mounted(Fields)

\* ------------------------------------------------------- zustand and immer

\* The caller calls an action of store s, which it reads from the state it
\* holds (state.actions), and then looks at what came of it before it calls
\* the next (the actions are synchronous).
Ready(s) == call = IdleOn(s) /\ "actions" \in DOMAIN scenes[s]

\* The action called c on store s ended by throwing err out of its recipe (or
\* out of the validator): set is never reached, so nothing is published.
Throw(s, c, err) ==
    /\ Ready(s)
    /\ scenes' = scenes
    /\ pre' = pre
    /\ call' = c
    /\ outcome' = err
    /\ same' = same
    /\ published' = published
    /\ returned' = <<>>
    /\ held' = held
    /\ shared' = shared
    /\ notified' = notified

\* useStore(store, selector, equalityFn) after a publish: the reader
\* re-renders when equalityFn(selector(previous), selector(next)) is false.
\* Object.is tells two array objects apart whatever they hold; replaced says
\* whether the selected array is a new object.
Rerenders(reader, previous, next, replaced) ==
    /\ replaced
    /\ reader.equalityFn = "byValue" => previous[reader.selector] # next[reader.selector]

\* the state of store t once store s has published partial: its own, but that
\* an array object partial hands back (not a fresh one) is one object wherever
\* it is held, and reads as partial has it
Aliased(t, partial, fresh) ==
    [f \in DOMAIN scenes[t] |->
        IF f \in shared /\ f \in (DOMAIN partial) \ fresh
        THEN partial[f]
        ELSE scenes[t][f]]

\* zustand's setState(partial): the state becomes a new object holding
\* partial's fields over the previous ones, and the subscribers are handed it.
\* fresh: the fields of partial whose array is a new object (produce copies an
\* array its recipe writes to, and hands back the very same array when it
\* does not).
setState(s, c, partial, fresh) ==
    /\ Ready(s)
    /\ scenes' = [t \in Stores |->
                     IF t = s THEN Spread(scenes[s], partial)
                              ELSE Aliased(t, partial, fresh)]
    /\ pre' = pre
    /\ call' = c
    /\ outcome' = "ok"
    /\ same' = same \ fresh
    /\ published' = Append(published, Spread(scenes[s], partial))
    /\ held' = held
    /\ shared' = shared \ fresh
    /\ notified' = {reader \in Readers :
                        Rerenders(reader, scenes[s], Spread(scenes[s], partial),
                                  reader.selector \in fresh)}

\* set(partial) as the last statement of an action, which returns nothing
set(s, c, partial, fresh) ==
    /\ setState(s, c, partial, fresh)
    /\ returned' = <<>>

\* ----------------------------------------------------------------- actions

\* setScene publishing what it normalized before the validator has spoken
setScenePublishFirst(s, scene) ==
    LET c == Call(s, "setScene", "", scene)
    IN  IF ~Valid(scene)
        THEN /\ Ready(s)
             /\ scenes' = [scenes EXCEPT
                              ![s] = Spread(scenes[s], sceneInputToScene(scene))]
             /\ pre' = pre
             /\ call' = c
             /\ outcome' = "ValidationError"
             /\ same' = {}
             /\ published' = <<Spread(scenes[s], sceneInputToScene(scene))>>
             /\ returned' = <<>>
             /\ held' = held
             /\ shared' = {}
             /\ notified' = Readers
        ELSE /\ setState(s, c, sceneInputToScene(scene), Fields)
             /\ returned' = <<sceneInputToScene(scene)>>

\* setScene publishing only the sequences of the new scene that hold entities
setSceneMerge(s, scene) ==
    LET c == Call(s, "setScene", "", scene)
    IN  IF ~Valid(scene)
        THEN Throw(s, c, "ValidationError")
        ELSE LET newScene == sceneInputToScene(scene)
                 filled == {f \in Fields : newScene[f] # <<>>}
             IN  /\ setState(s, c, [f \in filled |-> newScene[f]], filled)
                 /\ returned' = <<newScene>>

setScene(s, scene) ==
    LET c == Call(s, "setScene", "", scene)
    IN  IF ~Valid(scene)
        THEN Throw(s, c, "ValidationError")
        ELSE LET newScene == sceneInputToScene(scene)
             IN  /\ setState(s, c, newScene, Fields)
                 /\ returned' = <<newScene>>

\* updateScene computing the path of every connector it can resolve
updateSceneRerouting(s, scene) ==
    /\ Ready(s)
    /\ set(s, Call(s, "updateScene", "", scene),
           [nodes |-> scene.nodes,
            connectors |->
                [i \in DOMAIN scene.connectors |->
                    IF Dangling(scene.connectors[i].anchors, scene.nodes)
                    THEN scene.connectors[i]
                    ELSE [scene.connectors[i] EXCEPT
                            !.path = getConnectorPath(
                                         scene.connectors[i].anchors, scene.nodes,
                                         getAllAnchors(scene.connectors))]],
            rectangles |-> scene.rectangles],
           {"nodes", "connectors", "rectangles"})

updateScene(s, scene) ==
    /\ Ready(s)
    /\ set(s, Call(s, "updateScene", "", scene),
           [nodes |-> scene.nodes,
            connectors |-> scene.connectors,
            rectangles |-> scene.rectangles],
           {"nodes", "connectors", "rectangles"})

\* createNode pushing onto the array of the state itself, with no draft
createNodeInPlace(s, node) ==
    /\ Room(s, "nodes")
    /\ set(s, Call(s, "createNode", node.id, node),
           [nodes |-> Append(scenes[s].nodes, nodeInputToNode(node))], {})

\* createNode publishing a copy of the whole scene it produced
createNodeCopyAll(s, node) ==
    /\ Room(s, "nodes")
    /\ LET draftState == [scenes[s] EXCEPT
                            !.nodes = Append(@, nodeInputToNode(node))]
       IN  set(s, Call(s, "createNode", node.id, node),
               [f \in Fields |-> draftState[f]], Fields)

\* createNode putting the new node before the others (unshift for push)
createNodeFirst(s, node) ==
    /\ Room(s, "nodes")
    /\ set(s, Call(s, "createNode", node.id, node),
           [nodes |-> <<nodeInputToNode(node)>> \o scenes[s].nodes], {"nodes"})

createNode(s, node) ==
    /\ Room(s, "nodes")
    /\ LET draftState == [scenes[s] EXCEPT
                            !.nodes = Append(@, nodeInputToNode(node))]
       IN  set(s, Call(s, "createNode", node.id, node),
               [nodes |-> draftState.nodes], {"nodes"})

\* the connectors after updateNode's forEach over the draft, the draft's nodes
\* being nodes: the path of each connector with an anchor on id is computed
\* anew, from its anchors, the draft's nodes and the anchors of all connectors
\* (no anchor changes during the loop)
Reroute(connectors, nodes, id) ==
    [i \in DOMAIN connectors |->
        IF HasAnchorOn(connectors[i], id)
        THEN [connectors[i] EXCEPT
                !.path = getConnectorPath(connectors[i].anchors, nodes,
                                          getAllAnchors(connectors))]
        ELSE connectors[i]]

\* updateNode computing the paths before it has written the merged node
updateNodeStalePaths(s, id, updates) ==
    LET c == Call(s, "updateNode", id, updates)
        found == getItemById(scenes[s].nodes, id)
    IN  IF found.index = 0
        THEN Throw(s, c, "NotFound")
        ELSE IF \E i \in DOMAIN scenes[s].connectors :
                    /\ HasAnchorOn(scenes[s].connectors[i], id)
                    /\ Dangling(scenes[s].connectors[i].anchors, scenes[s].nodes)
             THEN Throw(s, c, "NotFound")
             ELSE set(s, c,
                      [nodes |-> [scenes[s].nodes EXCEPT
                                     ![found.index] = Spread(found.item, updates)],
                       connectors |-> Reroute(scenes[s].connectors, scenes[s].nodes, id)],
                      {"nodes", "connectors"})

\* updateNode computing anew the path of every connector it can resolve,
\* bound to the node or not
updateNodeRerouteAll(s, id, updates) ==
    LET c == Call(s, "updateNode", id, updates)
        found == getItemById(scenes[s].nodes, id)
    IN  IF found.index = 0
        THEN Throw(s, c, "NotFound")
        ELSE LET nodes == [scenes[s].nodes EXCEPT
                              ![found.index] = Spread(found.item, updates)]
                 connectors == scenes[s].connectors
             IN  IF \E i \in DOMAIN connectors :
                       /\ HasAnchorOn(connectors[i], id)
                       /\ Dangling(connectors[i].anchors, nodes)
                 THEN Throw(s, c, "NotFound")
                 ELSE set(s, c,
                          [nodes |-> nodes,
                           connectors |->
                               [i \in DOMAIN connectors |->
                                   IF Dangling(connectors[i].anchors, nodes)
                                   THEN connectors[i]
                                   ELSE [connectors[i] EXCEPT
                                           !.path = getConnectorPath(
                                                        connectors[i].anchors, nodes,
                                                        getAllAnchors(connectors))]]],
                          {"nodes", "connectors"})

\* the recipe throws NotFound when id is absent, and when the path of a bound
\* connector cannot be computed, an anchor of it being bound to a missing node
updateNode(s, id, updates) ==
    LET c == Call(s, "updateNode", id, updates)
        found == getItemById(scenes[s].nodes, id)
    IN  IF found.index = 0
        THEN Throw(s, c, "NotFound")
        ELSE LET nodes == [scenes[s].nodes EXCEPT
                              ![found.index] = Spread(found.item, updates)]
                 bound == {i \in DOMAIN scenes[s].connectors :
                              HasAnchorOn(scenes[s].connectors[i], id)}
             IN  IF \E i \in bound :
                       Dangling(scenes[s].connectors[i].anchors, nodes)
                 THEN Throw(s, c, "NotFound")
                 ELSE set(s, c,
                          [nodes |-> nodes,
                           connectors |-> Reroute(scenes[s].connectors, nodes, id)],
                          IF bound = {} THEN {"nodes"} ELSE {"nodes", "connectors"})

\* deleteNode dropping only the connectors whose every anchor is on the node
deleteNodeEvery(s, id) ==
    LET c == Call(s, "deleteNode", id, NoUpdates)
        found == getItemById(scenes[s].nodes, id)
    IN  IF found.index = 0
        THEN Throw(s, c, "NotFound")
        ELSE set(s, c,
                 [nodes |-> Splice(scenes[s].nodes, found.index),
                  connectors |->
                      SelectSeq(scenes[s].connectors,
                                LAMBDA connector :
                                    \E i \in DOMAIN connector.anchors :
                                        ~BoundTo(connector.anchors[i], id))],
                 {"nodes", "connectors"})

\* deleteNode removing the node and leaving the connectors alone
deleteNodeNoCascade(s, id) ==
    LET c == Call(s, "deleteNode", id, NoUpdates)
        found == getItemById(scenes[s].nodes, id)
    IN  IF found.index = 0
        THEN Throw(s, c, "NotFound")
        ELSE set(s, c, [nodes |-> Splice(scenes[s].nodes, found.index)], {"nodes"})

\* deleteNode publishing the nodes first and the connectors after
deleteNodeTwoSets(s, id) ==
    LET c == Call(s, "deleteNode", id, NoUpdates)
        found == getItemById(scenes[s].nodes, id)
        first == [scenes[s] EXCEPT !.nodes = Splice(scenes[s].nodes, found.index)]
        second == [first EXCEPT
                      !.connectors = SelectSeq(first.connectors,
                                               LAMBDA connector : ~HasAnchorOn(connector, id))]
    IN  IF found.index = 0
        THEN Throw(s, c, "NotFound")
        ELSE /\ Ready(s)
             /\ scenes' = [scenes EXCEPT ![s] = second]
             /\ pre' = pre
             /\ call' = c
             /\ outcome' = "ok"
             /\ same' = same \ {"nodes", "connectors"}
             /\ published' = <<first, second>>
             /\ returned' = <<>>
             /\ held' = held
             /\ shared' = shared \ {"nodes", "connectors"}
             /\ notified' = {reader \in Readers :
                                 reader.selector \in {"nodes", "connectors"}}

deleteNode(s, id) ==
    LET c == Call(s, "deleteNode", id, NoUpdates)
        found == getItemById(scenes[s].nodes, id)
    IN  IF found.index = 0
        THEN Throw(s, c, "NotFound")
        ELSE set(s, c,
                 [nodes |-> Splice(scenes[s].nodes, found.index),
                  connectors |-> SelectSeq(scenes[s].connectors,
                                           LAMBDA connector : ~HasAnchorOn(connector, id))],
                 {"nodes", "connectors"})

createConnector(s, connector) ==
    /\ Room(s, "connectors")
    /\ LET c == Call(s, "createConnector", connector.id, connector)
       IN  IF Dangling(connector.anchors, scenes[s].nodes)
           THEN Throw(s, c, "NotFound")
           ELSE set(s, c,
                    [connectors |->
                        Append(scenes[s].connectors,
                               connectorInputToConnector(
                                   connector, scenes[s].nodes,
                                   getAllAnchors(scenes[s].connectors)))],
                    {"connectors"})

\* updateConnector going on, and publishing, when the id is absent
updateConnectorSilent(s, id, updates) ==
    LET c == Call(s, "updateConnector", id, updates)
        found == getItemById(scenes[s].connectors, id)
    IN  IF found.index = 0
        THEN set(s, c, [connectors |-> scenes[s].connectors], {})
        ELSE set(s, c,
                 [connectors |-> [scenes[s].connectors EXCEPT
                                     ![found.index] = Spread(found.item, updates)]],
                 {"connectors"})

\* updateConnector computing the path anew when updates carries anchors that
\* resolve
updateConnectorRerouting(s, id, updates) ==
    LET c == Call(s, "updateConnector", id, updates)
        found == getItemById(scenes[s].connectors, id)
        merged == Spread(found.item, updates)
        connectors == [scenes[s].connectors EXCEPT ![found.index] = merged]
    IN  IF found.index = 0
        THEN Throw(s, c, "NotFound")
        ELSE set(s, c,
                 [connectors |->
                     IF "anchors" \in DOMAIN updates
                            /\ ~Dangling(merged.anchors, scenes[s].nodes)
                     THEN [connectors EXCEPT
                              ![found.index].path =
                                  getConnectorPath(merged.anchors, scenes[s].nodes,
                                                   getAllAnchors(connectors))]
                     ELSE connectors],
                 {"connectors"})

updateConnector(s, id, updates) ==
    LET c == Call(s, "updateConnector", id, updates)
        found == getItemById(scenes[s].connectors, id)
    IN  IF found.index = 0
        THEN Throw(s, c, "NotFound")
        ELSE set(s, c,
                 [connectors |-> [scenes[s].connectors EXCEPT
                                     ![found.index] = Spread(found.item, updates)]],
                 {"connectors"})

deleteConnector(s, id) ==
    LET c == Call(s, "deleteConnector", id, NoUpdates)
        found == getItemById(scenes[s].connectors, id)
    IN  IF found.index = 0
        THEN Throw(s, c, "NotFound")
        ELSE set(s, c,
                 [connectors |-> Splice(scenes[s].connectors, found.index)],
                 {"connectors"})

\* createRectangle pushing onto the array of the state itself, with no draft
createRectangleInPlace(s, rectangle) ==
    /\ Room(s, "rectangles")
    /\ set(s, Call(s, "createRectangle", rectangle.id, rectangle),
           [rectangles |-> Append(scenes[s].rectangles,
                                  rectangleInputToRectangle(rectangle))],
           {})

createRectangle(s, rectangle) ==
    /\ Room(s, "rectangles")
    /\ set(s, Call(s, "createRectangle", rectangle.id, rectangle),
           [rectangles |-> Append(scenes[s].rectangles,
                                  rectangleInputToRectangle(rectangle))],
           {"rectangles"})

createTextBox(s, textBox) ==
    /\ Room(s, "textBoxes")
    /\ set(s, Call(s, "createTextBox", textBox.id, textBox),
           [textBoxes |-> Append(scenes[s].textBoxes, textBoxInputToTextBox(textBox))],
           {"textBoxes"})

\* the draft text box after the recipe's first statement: its size measured
\* anew when updates carries a text or a fontSize
Resized(textBox, updates) ==
    IF "text" \in DOMAIN updates \/ "fontSize" \in DOMAIN updates
    THEN [textBox EXCEPT
            !.size = [width |-> getTextWidth(
                                   Coalesce(updates, "text", textBox.text),
                                   [fontSize |-> Coalesce(updates, "fontSize",
                                                          textBox.fontSize),
                                    fontFamily |-> DEFAULT_FONT_FAMILY,
                                    fontWeight |-> TEXTBOX_DEFAULTS.fontWeight]),
                      height |-> 1]]
    ELSE textBox

\* found.item is the draft of the text box, so the spread reads the size the
\* first statement wrote, and then every field of updates over it
updateTextBox(s, id, updates) ==
    LET c == Call(s, "updateTextBox", id, updates)
        found == getItemById(scenes[s].textBoxes, id)
    IN  IF found.index = 0
        THEN Throw(s, c, "NotFound")
        ELSE set(s, c,
                 [textBoxes |-> [scenes[s].textBoxes EXCEPT
                                    ![found.index] =
                                        Spread(Resized(found.item, updates), updates)]],
                 {"textBoxes"})

deleteTextBox(s, id) ==
    LET c == Call(s, "deleteTextBox", id, NoUpdates)
        found == getItemById(scenes[s].textBoxes, id)
    IN  IF found.index = 0
        THEN Throw(s, c, "NotFound")
        ELSE set(s, c,
                 [textBoxes |-> Splice(scenes[s].textBoxes, found.index)],
                 {"textBoxes"})

\* updateRectangle storing the updates alone, without the rectangle under them
updateRectangleNoSpread(s, id, updates) ==
    LET c == Call(s, "updateRectangle", id, updates)
        found == getItemById(scenes[s].rectangles, id)
    IN  IF found.index = 0
        THEN Throw(s, c, "NotFound")
        ELSE set(s, c,
                 [rectangles |-> [scenes[s].rectangles EXCEPT
                                     ![found.index] = updates]],
                 {"rectangles"})

updateRectangle(s, id, updates) ==
    LET c == Call(s, "updateRectangle", id, updates)
        found == getItemById(scenes[s].rectangles, id)
    IN  IF found.index = 0
        THEN Throw(s, c, "NotFound")
        ELSE set(s, c,
                 [rectangles |-> [scenes[s].rectangles EXCEPT
                                     ![found.index] = Spread(found.item, updates)]],
                 {"rectangles"})

deleteRectangle(s, id) ==
    LET c == Call(s, "deleteRectangle", id, NoUpdates)
        found == getItemById(scenes[s].rectangles, id)
    IN  IF found.index = 0
        THEN Throw(s, c, "NotFound")
        ELSE set(s, c,
                 [rectangles |-> Splice(scenes[s].rectangles, found.index)],
                 {"rectangles"})

\* ----------------------------------------------------------- specification

\* the actions on the graph of store s (the scene, its nodes, its connectors)
GraphAct(s) ==
    \/ \E scene \in RawScenes : setScene(s, scene)
    \/ \E scene \in PartialScenes : updateScene(s, scene)
    \/ \E node \in NodeInputs : createNode(s, node)
    \/ \E id \in Ids, updates \in NodeUpdates : updateNode(s, id, updates)
    \/ \E id \in Ids : deleteNode(s, id)
    \/ \E connector \in ConnectorInputs : createConnector(s, connector)
    \/ \E id \in Ids, updates \in ConnectorUpdates : updateConnector(s, id, updates)
    \/ \E id \in Ids : deleteConnector(s, id)

\* the actions on the shapes of store s (its rectangles, its text boxes)
ShapeAct(s) ==
    \/ \E rectangle \in RectangleInputs : createRectangle(s, rectangle)
    \/ \E textBox \in TextBoxInputs : createTextBox(s, textBox)
    \/ \E id \in Ids, updates \in TextBoxUpdates : updateTextBox(s, id, updates)
    \/ \E id \in Ids : deleteTextBox(s, id)
    \/ \E id \in Ids, updates \in RectangleUpdates : updateRectangle(s, id, updates)
    \/ \E id \in Ids : deleteRectangle(s, id)

\* The caller of the next action obtains the store's state first: get().
Get(s) ==
    /\ call.op # "idle"
    /\ scenes' = scenes
    /\ pre' = scenes[s]
    /\ call' = IdleOn(s)
    /\ outcome' = "ok"
    /\ same' = Fields
    /\ published' = <<>>
    /\ returned' = <<>>
    /\ held' = scenes
    /\ shared' = shared
    /\ notified' = {}

\* One provider: the store A alone is in use, by one caller, which calls any
\* action on the snapshot it holds and looks at what came of it.
Next ==
    \/ GraphAct("A")
    \/ ShapeAct("A")
    \/ Get("A")

Spec == Init /\ [][Next]_vars

\* The same, the caller editing the graph only.
NextGraph ==
    \/ GraphAct("A")
    \/ Get("A")

SpecGraph == Init /\ [][NextGraph]_vars

\* The same, the caller editing the shapes only.
NextShapes ==
    \/ ShapeAct("A")
    \/ Get("A")

SpecShapes == Init /\ [][NextShapes]_vars

\* the actions that compute the paths or leave them alone, on store s: those
\* on the graph but setScene, updateScene and updateConnector
PathAct(s) ==
    \/ \E node \in NodeInputs : createNode(s, node)
    \/ \E id \in Ids, updates \in NodeUpdates : updateNode(s, id, updates)
    \/ \E id \in Ids : deleteNode(s, id)
    \/ \E connector \in ConnectorInputs : createConnector(s, connector)
    \/ \E id \in Ids : deleteConnector(s, id)

\* One provider, the caller creating, updating and deleting nodes, and
\* creating and deleting connectors.
NextPaths ==
    \/ PathAct("A")
    \/ Get("A")

SpecPaths == Init /\ [][NextPaths]_vars

\* the actions the callers of two providers take, each on its own store
StoreAct(s) ==
    \/ \E node \in NodeInputs : createNode(s, node)
    \/ \E id \in Ids : deleteNode(s, id)
    \/ \E rectangle \in RectangleInputs : createRectangle(s, rectangle)
    \/ \E id \in Ids : deleteRectangle(s, id)

\* Two providers: the callers of A and of B take turns in any order, each
\* obtaining the state of its own store and calling an action of it.
NextStores ==
    \/ \E s \in Stores : StoreAct(s)
    \/ \E s \in Stores : Get(s)

SpecStores == InitStores /\ [][NextStores]_vars

\* ------------------------------------------------------------------ claims

\* the store the caller called, as it is now
cur == scenes[call.store]

\* the caller's action ended well
Ok(op) == call.op = op /\ outcome = "ok"

\* the sequence an action addressed by id looks the id up in
Target ==
    [updateNode |-> "nodes", deleteNode |-> "nodes",
     updateConnector |-> "connectors", deleteConnector |-> "connectors",
     updateRectangle |-> "rectangles", deleteRectangle |-> "rectangles",
     updateTextBox |-> "textBoxes", deleteTextBox |-> "textBoxes"]

\* what the caller reads now in the snapshot it obtained before the action:
\* an array the store still holds is read as the store has it
HeldSnapshot == [f \in DOMAIN pre |-> IF f \in same THEN cur[f] ELSE pre[f]]

\* no anchor of the connector is bound to the node id
Unbound(connector, id) ==
    \A i \in DOMAIN connector.anchors :
        ~(connector.anchors[i].ref.type = "NODE" /\ connector.anchors[i].ref.id = id)

\* in scene, every connector with an anchor on id has anchors computePath can
\* resolve, and its path is what computePath gives for its anchors, the
\* scene's nodes and all its anchors
FreshPaths(scene, id) ==
    \A i \in DOMAIN scene.connectors :
        ~Unbound(scene.connectors[i], id) =>
            /\ ~Dangling(scene.connectors[i].anchors, scene.nodes)
            /\ scene.connectors[i].path =
                   getConnectorPath(scene.connectors[i].anchors, scene.nodes,
                                    getAllAnchors(scene.connectors))

\* items without its first entity of that id, the others in their order
WithoutFirst(items, id) ==
    LET k == CHOOSE k \in DOMAIN items :
                 items[k].id = id /\ \A j \in 1..(k - 1) : items[j].id # id
    IN  SubSeq(items, 1, k - 1) \o SubSeq(items, k + 1, Len(items))

\* C1: a successful deleteNode(N) publishes the scene without the node N,
\* without every connector that had an anchor on N, and with the connectors
\* that had none, unchanged and in their order; two nodes with a connector
\* bound to both give 1 node and 0 connectors once the first is deleted.
C1_DeleteNodeCascade ==
    Ok("deleteNode") =>
        /\ call.id \in IdsOf(pre.nodes)
        /\ cur.nodes = WithoutFirst(pre.nodes, call.id)
        /\ cur.connectors =
               SelectSeq(pre.connectors, LAMBDA connector : Unbound(connector, call.id))
        /\ (/\ Len(pre.nodes) = 2
            /\ pre.nodes[1].id # pre.nodes[2].id
            /\ call.id = pre.nodes[1].id
            /\ Len(pre.connectors) = 1
            /\ ~Unbound(pre.connectors[1], pre.nodes[1].id)
            /\ ~Unbound(pre.connectors[1], pre.nodes[2].id))
               => Len(cur.nodes) = 1 /\ Len(cur.connectors) = 0

\* deleteNode dropped a connector with one anchor on the node and a tile
\* anchor, and kept the other connector
C1_Witness ==
    /\ Ok("deleteNode")
    /\ Len(pre.connectors) = 2
    /\ Len(cur.connectors) = 1
    /\ \E i \in DOMAIN pre.connectors :
          /\ ~Unbound(pre.connectors[i], call.id)
          /\ \E k \in DOMAIN pre.connectors[i].anchors :
                pre.connectors[i].anchors[k].ref.type = "TILE"

\* every anchor bound to a node is bound to a node of the scene
Resolvable(scene) ==
    \A i \in DOMAIN scene.connectors :
        \A k \in DOMAIN scene.connectors[i].anchors :
            scene.connectors[i].anchors[k].ref.type = "NODE" =>
                scene.connectors[i].anchors[k].ref.id \in IdsOf(scene.nodes)

\* C2, as claimed: after a successful deleteNode(N), whatever came before, no
\* published connector references a node the published nodes lack.
C2_NoDanglingAfterDelete == Ok("deleteNode") => Resolvable(cur)

\* C2, amended: after a successful deleteNode(N) no published connector has an
\* anchor bound to N, and every published connector whose bound anchors all
\* resolved before the delete has them all resolve after it.
C2_DeleteLeavesNoneBound ==
    Ok("deleteNode") =>
        /\ \A i \in DOMAIN cur.connectors : Unbound(cur.connectors[i], call.id)
        /\ \A i \in DOMAIN cur.connectors :
              ~Dangling(cur.connectors[i].anchors, pre.nodes) =>
                  ~Dangling(cur.connectors[i].anchors, cur.nodes)

\* deleteNode kept a connector bound to another node, which the scene holds
C2_Witness ==
    /\ Ok("deleteNode")
    /\ \E i \in DOMAIN cur.connectors :
          /\ \E k \in DOMAIN cur.connectors[i].anchors :
                cur.connectors[i].anchors[k].ref.type = "NODE"
          /\ ~Dangling(cur.connectors[i].anchors, cur.nodes)

\* C3: after a successful updateNode(id, updates) the published nodes hold the
\* merged node, every published connector with an anchor on id has the path
\* computePath gives for its anchors, the published nodes and all published
\* anchors, and both were published in the one snapshot.
C3_PathFreshness ==
    Ok("updateNode") =>
        LET index == getItemById(pre.nodes, call.id).index
        IN  /\ index > 0
            /\ cur.nodes[index] = Spread(pre.nodes[index], call.arg)
            /\ FreshPaths(cur, call.id)
            /\ published = <<cur>>

\* updateNode moved a node and the path of a connector bound to it changed
C3_Witness ==
    /\ Ok("updateNode")
    /\ "position" \in DOMAIN call.arg
    /\ \E n \in DOMAIN pre.nodes :
          pre.nodes[n].id = call.id /\ pre.nodes[n].position # cur.nodes[n].position
    /\ Len(cur.connectors) = 2
    /\ \E i \in DOMAIN cur.connectors :
          /\ ~Unbound(cur.connectors[i], call.id)
          /\ cur.connectors[i].path # pre.connectors[i].path

\* C4: an action addressed by id, called with an id its sequence lacks, fails
\* with NotFound, leaves the published scene as it was and hands the
\* subscribers nothing.
C4_NotFoundAllOrNothing ==
    (call.op \in DOMAIN Target /\ call.id \notin IdsOf(pre[Target[call.op]])) =>
        /\ outcome = "NotFound"
        /\ cur = pre
        /\ published = <<>>

\* updateConnector failed on an absent id, in a scene that holds a connector
C4_Witness ==
    /\ call.op = "updateConnector"
    /\ call.id \notin IdsOf(pre.connectors)
    /\ pre.connectors # <<>>
    /\ outcome = "NotFound"

\* C5, as claimed: in every published scene no two entities of a sequence
\* share an id.
C5_Uniqueness == \A s \in Stores : \A f \in Fields : Unique(scenes[s][f])

\* C6: after any action the snapshot its caller obtained before it reads as
\* it read then, in all five sequences.
C6_PriorSnapshotUnchanged == HeldSnapshot = pre

\* updateTextBox published other text boxes and the caller's are as they were
C6_Witness ==
    /\ Ok("updateTextBox")
    /\ cur.textBoxes # pre.textBoxes
    /\ HeldSnapshot.textBoxes = pre.textBoxes
    /\ "textBoxes" \notin same

\* C7: a successful action hands the subscribers one snapshot, the scene it
\* leaves published, its cascade complete in it: after deleteNode no connector
\* bound to the deleted node, after updateNode no bound connector with a path
\* not computed from the updated nodes.
C7_OneSnapshotCascadeDone ==
    (call # Idle /\ outcome = "ok") =>
        /\ Len(published) = 1
        /\ \A k \in DOMAIN published :
              /\ published[k] = cur
              /\ call.op = "deleteNode" =>
                    /\ Len(published[k].nodes) = Len(pre.nodes) - 1
                    /\ \A i \in DOMAIN published[k].connectors :
                          Unbound(published[k].connectors[i], call.id)
              /\ call.op = "updateNode" => FreshPaths(published[k], call.id)

\* deleteNode dropped a connector and the subscribers saw one snapshot
C7_Witness ==
    /\ Ok("deleteNode")
    /\ Len(cur.connectors) < Len(pre.connectors)
    /\ Len(published) = 1

\* C8: setScene(raw) with a raw the validator rejects fails with
\* ValidationError, the scene published before stays published, and the
\* subscribers are handed nothing.
C8_InvalidSceneRejected ==
    (call.op = "setScene" /\ ~Valid(call.arg)) =>
        /\ outcome = "ValidationError"
        /\ cur = pre
        /\ published = <<>>

\* setScene rejected a raw scene with duplicate ids while a scene with
\* entities was published
C8_Witness ==
    /\ call.op = "setScene"
    /\ ~Unique(call.arg.nodes)
    /\ outcome = "ValidationError"
    /\ Total(cur) > 0

\* C9, as claimed: after a successful updateTextBox(id, updates) whose updates
\* carry a text or a fontSize, the published text box has the width measured
\* for the effective text and fontSize, and height 1, whatever size updates
\* carry.
C9_TextSizeRecomputed ==
    (Ok("updateTextBox") /\ ("text" \in DOMAIN call.arg \/ "fontSize" \in DOMAIN call.arg)) =>
        LET index == getItemById(pre.textBoxes, call.id).index
            before == pre.textBoxes[index]
            text == IF "text" \in DOMAIN call.arg THEN call.arg.text ELSE before.text
            fontSize == IF "fontSize" \in DOMAIN call.arg
                        THEN call.arg.fontSize ELSE before.fontSize
        IN  cur.textBoxes[index].size =
                [width |-> getTextWidth(text, [fontSize |-> fontSize,
                                               fontFamily |-> DEFAULT_FONT_FAMILY,
                                               fontWeight |-> TEXTBOX_DEFAULTS.fontWeight]),
                 height |-> 1]

\* C10: updateRectangle(id, {}) on an existing rectangle publishes a scene in
\* which the rectangle has the field values it had and the rectangles are the
\* same entities in the same order, so that the scene is the same by value
\* however often it is applied.
C10_EmptyUpdateKeepsRectangle ==
    (call.op = "updateRectangle" /\ call.arg = NoUpdates
        /\ call.id \in IdsOf(pre.rectangles)) =>
        /\ outcome = "ok"
        /\ published = <<cur>>
        /\ Len(cur.rectangles) = Len(pre.rectangles)
        /\ \A i \in DOMAIN pre.rectangles :
              /\ DOMAIN cur.rectangles[i] = DOMAIN pre.rectangles[i]
              /\ \A f \in DOMAIN pre.rectangles[i] :
                    cur.rectangles[i][f] = pre.rectangles[i][f]
        /\ cur = pre

\* updateRectangle(id, {}) published a new array of two rectangles
C10_Witness ==
    /\ Ok("updateRectangle")
    /\ call.arg = NoUpdates
    /\ Len(pre.rectangles) = 2
    /\ "rectangles" \notin same

\* C11: updateScene(partial) never fails and publishes, in one snapshot, the
\* nodes, connectors and rectangles the caller supplied, as supplied (each
\* connector with the path it came with, whatever its anchors resolve to),
\* and the text boxes and icons published before, in their very arrays.
C11_UpdateSceneReplaces ==
    call.op = "updateScene" =>
        /\ outcome = "ok"
        /\ published = <<cur>>
        /\ cur.nodes = call.arg.nodes
        /\ cur.connectors = call.arg.connectors
        /\ cur.rectangles = call.arg.rectangles
        /\ \A i \in DOMAIN cur.connectors :
              cur.connectors[i].path = call.arg.connectors[i].path
        /\ cur.textBoxes = pre.textBoxes
        /\ cur.icons = pre.icons
        /\ {"textBoxes", "icons"} \subseteq same

\* updateScene published, over a scene with an icon and a node, a connector
\* bound to a node the published nodes lack, with the path it came with
C11_Witness ==
    /\ Ok("updateScene")
    /\ pre.icons # <<>>
    /\ pre.nodes # cur.nodes
    /\ \E i \in DOMAIN cur.connectors :
          /\ Dangling(cur.connectors[i].anchors, cur.nodes)
          /\ cur.connectors[i].path = StalePath

\* C12: a successful setScene(raw) publishes, in one snapshot, a state whose
\* five sequences are those of normalize(raw), so that every entity published
\* is one of normalize(raw); it returns that scene to the caller; and the
\* state keeps the actions it had.
C12_SetSceneReplaces ==
    Ok("setScene") =>
        LET newScene == sceneInputToScene(call.arg)
        IN  /\ \A f \in Fields : cur[f] = newScene[f]
            /\ \A f \in Fields : \A i \in DOMAIN cur[f] :
                  \E j \in DOMAIN newScene[f] : cur[f][i] = newScene[f][j]
            /\ published = <<cur>>
            /\ returned = <<[f \in Fields |-> cur[f]]>>
            /\ "actions" \in DOMAIN cur
            /\ cur.actions = pre.actions

\* setScene replaced a scene holding a rectangle and a connector by one that
\* holds neither, and returned it
C12_Witness ==
    /\ Ok("setScene")
    /\ pre.rectangles # <<>>
    /\ pre.connectors # <<>>
    /\ cur.rectangles = <<>>
    /\ cur.connectors = <<>>
    /\ cur.icons # <<>>
    /\ Len(returned) = 1

\* C13: with two providers mounted, whose stores start over the one
\* initialScene, an action called on one store leaves the state of the other
\* as it was, and the state of the called store is what the action makes of
\* that store's own previous state, whatever was done to the other.
C13_StoresIndependent ==
    call.op # "idle" =>
        /\ \A t \in Stores \ {call.store} : scenes[t] = held[t]
        /\ pre = held[call.store]
        /\ outcome # "ok" => cur = pre
        /\ Ok("createNode") =>
              cur = [pre EXCEPT !.nodes = Append(@, nodeInputToNode(call.arg))]
        /\ Ok("createRectangle") =>
              cur = [pre EXCEPT
                        !.rectangles = Append(@, rectangleInputToRectangle(call.arg))]
        /\ Ok("deleteNode") =>
              cur = [pre EXCEPT
                        !.nodes = WithoutFirst(@, call.id),
                        !.connectors = SelectSeq(@, LAMBDA connector :
                                                        Unbound(connector, call.id))]
        /\ Ok("deleteRectangle") =>
              cur = [pre EXCEPT !.rectangles = WithoutFirst(@, call.id)]

\* store B published its first rectangle while store A, with which it has
\* arrays in common, holds a node and no rectangle
C13_Witness ==
    /\ call.store = "B"
    /\ Ok("createRectangle")
    /\ pre.rectangles = <<>>
    /\ "icons" \in shared
    /\ "rectangles" \notin shared
    /\ scenes["A"].nodes # <<>>
    /\ scenes["A"].rectangles = <<>>
    /\ scenes["B"].rectangles # <<>>

\* the sequences each action hands to set
Sets ==
    [setScene |-> Fields,
     updateScene |-> {"nodes", "connectors", "rectangles"},
     createNode |-> {"nodes"},
     updateNode |-> {"nodes", "connectors"},
     deleteNode |-> {"nodes", "connectors"},
     createConnector |-> {"connectors"},
     updateConnector |-> {"connectors"},
     deleteConnector |-> {"connectors"},
     createRectangle |-> {"rectangles"},
     updateRectangle |-> {"rectangles"},
     deleteRectangle |-> {"rectangles"},
     createTextBox |-> {"textBoxes"},
     updateTextBox |-> {"textBoxes"},
     deleteTextBox |-> {"textBoxes"}]

\* C14: an action that fails makes no reader re-render; one that publishes
\* makes a reader re-render only when its equality tells the sequence it
\* selects in the new snapshot from that of the previous one (with the
\* default, when the array is another object; by value, when its value also
\* differs), so only a reader of a sequence the action hands to set; no
\* reader of the rectangles re-renders after createNode or updateTextBox.
C14_NotifiedOnChange ==
    call.op # "idle" =>
        /\ outcome # "ok" => notified = {}
        /\ \A reader \in notified :
              /\ reader.selector \notin same
              /\ reader.equalityFn = "byValue" =>
                    pre[reader.selector] # cur[reader.selector]
              /\ reader.selector \in Sets[call.op]
        /\ call.op \in {"createNode", "updateTextBox"} =>
              \A reader \in notified : reader.selector # "rectangles"

\* createNode, in a scene with a rectangle, made the readers of the nodes
\* re-render and no reader of the rectangles
C14_Witness ==
    /\ Ok("createNode")
    /\ pre.rectangles # <<>>
    /\ [selector |-> "nodes", equalityFn |-> "Object.is"] \in notified
    /\ [selector |-> "nodes", equalityFn |-> "byValue"] \in notified
    /\ \A reader \in notified : reader.selector = "nodes"

\* C15, as claimed: whatever scene createNode(input) is called in, no
\* connector of it has an anchor bound to the id of the new node.
C15_NoConnectorOnNewNode ==
    Ok("createNode") =>
        \A i \in DOMAIN pre.connectors : Unbound(pre.connectors[i], call.id)

\* C15, amended: a successful createNode(input) publishes the connectors as
\* they were, in their very array. Where every bound anchor of the previous
\* scene resolved and no node had the new id, no published connector is bound
\* to the new node; where a node had the id already, the connectors bound to
\* it that had the path computePath gives still have it.
C15_CreateNodeNoCascade ==
    Ok("createNode") =>
        /\ cur.connectors = pre.connectors
        /\ "connectors" \in same
        /\ (Resolvable(pre) /\ call.id \notin IdsOf(pre.nodes)) =>
              \A i \in DOMAIN cur.connectors : Unbound(cur.connectors[i], call.id)
        /\ (call.id \in IdsOf(pre.nodes) /\ FreshPaths(pre, call.id)) =>
              FreshPaths(cur, call.id)

\* createNode appended a second node of an id a connector is bound to, at
\* another position than the first
C15_Witness ==
    /\ Ok("createNode")
    /\ \E i \in DOMAIN pre.connectors : ~Unbound(pre.connectors[i], call.id)
    /\ \E n \in DOMAIN pre.nodes :
          /\ pre.nodes[n].id = call.id
          /\ pre.nodes[n].position # call.arg.position
    /\ FreshPaths(pre, call.id)

\* the sequence a create action appends to
Appends ==
    [createNode |-> "nodes", createConnector |-> "connectors",
     createRectangle |-> "rectangles", createTextBox |-> "textBoxes"]

Updates == {"updateNode", "updateConnector", "updateRectangle", "updateTextBox"}

\* a successful create action left its sequence as it was, with one entity,
\* of the id given, after the others
AppendedOne ==
    (call.op \in DOMAIN Appends /\ outcome = "ok") =>
        LET before == pre[Appends[call.op]]
            after == cur[Appends[call.op]]
        IN  /\ Len(after) = Len(before) + 1
            /\ SubSeq(after, 1, Len(before)) = before
            /\ after[Len(after)].id = call.id

\* a successful update action left every entity of its sequence but the
\* first of the id as it was, and of that one every field that updates lacks
\* and that is not in derived
MergedOne(derived) ==
    (call.op \in Updates /\ outcome = "ok") =>
        LET before == pre[Target[call.op]]
            after == cur[Target[call.op]]
            index == getItemById(before, call.id).index
        IN  /\ index > 0
            /\ Len(after) = Len(before)
            /\ \A i \in DOMAIN before : i # index => after[i] = before[i]
            /\ \A g \in (DOMAIN before[index]) \ ((DOMAIN call.arg) \cup derived) :
                  /\ g \in DOMAIN after[index]
                  /\ after[index][g] = before[index][g]

\* a successful updateNode left every connector as it was, but for the path of
\* those with an anchor on the id
PathsOnly ==
    Ok("updateNode") =>
        /\ Len(cur.connectors) = Len(pre.connectors)
        /\ \A i \in DOMAIN pre.connectors :
              /\ cur.connectors[i] =
                     [pre.connectors[i] EXCEPT !.path = cur.connectors[i].path]
              /\ Unbound(pre.connectors[i], call.id) =>
                     cur.connectors[i] = pre.connectors[i]

\* a successful action left the sequences it does not hand to set as they
\* were, in their very arrays
OthersKept ==
    (call.op # "idle" /\ outcome = "ok") =>
        \A f \in Fields \ Sets[call.op] : cur[f] = pre[f] /\ f \in same

\* C16, as claimed: a successful create action appends one entity to its own
\* sequence and keeps the others in their order; a successful update action
\* changes only the entity at the matched position, every field absent from
\* updates keeping its value; updateNode changes of the connectors only the
\* path of those bound to the id; the sequences an action does not target
\* (the icons under every action but setScene) are the same as before.
C16_OnlyTheTarget ==
    AppendedOne /\ MergedOne({}) /\ PathsOnly /\ OthersKept

\* C16, amended: the same, but that updateTextBox with a text or a fontSize
\* in updates also changes the size of the text box, which it measures anew.
C16_OnlyTheTargetAndDerived ==
    /\ AppendedOne
    /\ MergedOne(IF /\ call.op = "updateTextBox"
                    /\ DOMAIN call.arg \cap {"text", "fontSize"} # {}
                 THEN {"size"} ELSE {})
    /\ PathsOnly
    /\ OthersKept

\* updateTextBox, given a text and no size, changed the size of the second of
\* two text boxes and left the first, and the rectangles, as they were
C16_Witness ==
    /\ Ok("updateTextBox")
    /\ "size" \notin DOMAIN call.arg
    /\ Len(pre.textBoxes) = 2
    /\ pre.rectangles # <<>>
    /\ cur.textBoxes[1] = pre.textBoxes[1]
    /\ cur.textBoxes[2].size # pre.textBoxes[2].size

\* C17: a successful updateConnector(id, updates) publishes the first
\* connector of that id with the fields of updates over its own: its path is
\* that of updates when updates carries one and the path it had otherwise,
\* whatever anchors updates carries; the other connectors and the nodes are
\* as they were.
C17_UpdateConnectorNoRecompute ==
    Ok("updateConnector") =>
        LET index == getItemById(pre.connectors, call.id).index
        IN  /\ index > 0
            /\ Len(cur.connectors) = Len(pre.connectors)
            /\ cur.connectors[index] = Spread(pre.connectors[index], call.arg)
            /\ cur.connectors[index].path =
                   IF "path" \in DOMAIN call.arg
                   THEN call.arg.path
                   ELSE pre.connectors[index].path
            /\ \A i \in DOMAIN pre.connectors :
                  i # index => cur.connectors[i] = pre.connectors[i]
            /\ cur.nodes = pre.nodes
            /\ "nodes" \in same

\* updateConnector gave a connector other anchors, which resolve, and left it
\* the path it had, which is not the one computePath gives for them
C17_Witness ==
    /\ Ok("updateConnector")
    /\ "anchors" \in DOMAIN call.arg
    /\ \E i \in DOMAIN cur.connectors :
          /\ cur.connectors[i].anchors = call.arg.anchors
          /\ cur.connectors[i].anchors # pre.connectors[i].anchors
          /\ cur.connectors[i].path = pre.connectors[i].path
          /\ ~Dangling(cur.connectors[i].anchors, cur.nodes)
          /\ cur.connectors[i].path.tiles #
                 getConnectorPath(cur.connectors[i].anchors, cur.nodes,
                                  getAllAnchors(cur.connectors)).tiles

Deletes == {"deleteNode", "deleteConnector", "deleteRectangle", "deleteTextBox"}

\* C18, as claimed: after a successful delete action its sequence holds no
\* entity of the id (so that a second delete of it fails with NotFound), is
\* one entity shorter, and holds the remaining entities in their order.
C18_DeleteRemovesId ==
    (call.op \in Deletes /\ outcome = "ok") =>
        /\ call.id \notin IdsOf(cur[Target[call.op]])
        /\ Len(cur[Target[call.op]]) = Len(pre[Target[call.op]]) - 1
        /\ cur[Target[call.op]] = WithoutFirst(pre[Target[call.op]], call.id)

\* C19, as claimed: after createNode, updateNode, deleteNode, createConnector
\* and deleteConnector in any order, every published connector has anchors
\* that resolve and the path computePath gives for them, the published nodes
\* and the anchors of all published connectors.
C19_PathsConsistent ==
    \A i \in DOMAIN scenes["A"].connectors :
        /\ ~Dangling(scenes["A"].connectors[i].anchors, scenes["A"].nodes)
        /\ scenes["A"].connectors[i].path =
               getConnectorPath(scenes["A"].connectors[i].anchors, scenes["A"].nodes,
                                getAllAnchors(scenes["A"].connectors))

\* what updateNode(id, {}) publishes when called in scene: the scene itself
\* when it throws
AfterEmptyUpdateNode(scene, id) ==
    LET found == getItemById(scene.nodes, id)
    IN  IF found.index = 0
        THEN scene
        ELSE LET nodes == [scene.nodes EXCEPT
                              ![found.index] = Spread(found.item, NoUpdates)]
             IN  IF \E i \in DOMAIN scene.connectors :
                       /\ HasAnchorOn(scene.connectors[i], id)
                       /\ Dangling(scene.connectors[i].anchors, nodes)
                 THEN scene
                 ELSE [scene EXCEPT
                          !.nodes = nodes,
                          !.connectors = Reroute(scene.connectors, nodes, id)]

\* C20, as claimed: when createConnector has appended a connector with an
\* anchor bound to a node, updateNode(id, {}) called next on that node
\* publishes the scene createConnector published, the path of the new
\* connector included.
C20_CreateAgreesWithRecompute ==
    Ok("createConnector") =>
        \A id \in IdsOf(cur.nodes) :
            HasAnchorOn(cur.connectors[Len(cur.connectors)], id) =>
                AfterEmptyUpdateNode(cur, id) = cur

====
